---- MODULE Spec2Model ----
(***************************************************************************)
(* Model3D.js (spellbook): a voodoo Model (Model3D) that owns the          *)
(* animation registry and the playing state, and one or two views          *)
(* (Model3DView_: this.view and the optional this.stencilView) that own    *)
(* the mesh loaded asynchronously by THREE.JSONLoader.                     *)
(*                                                                         *)
(* One action per public operation or callback.  A handler that throws     *)
(* keeps the assignments it made before the throw; err records how the     *)
(* last handler ended and trace what it dispatched and which view methods  *)
(* it entered, in order.                                                   *)
(***************************************************************************)
EXTENDS Integers, Sequences, FiniteSets, TLC

\* ------------------------------------------------------------------ bounds

\* Loads a view may issue in one run: the one of load() plus the reloads.
MaxLoads == 2

\* Calls and loader callbacks in one run.
MaxCalls == 7

\* Longest one-shot clip of the playback runs, in seconds.
MaxSeconds == 6

\* ------------------------------------------------------------- JavaScript

\* Numbers are the naturals; the two non-numbers a number field can hold.
UndefinedNum == -1
NaN == -2

IsNum(x) == x >= 0

\* a < b on numbers; false when either side is undefined or NaN.
Less(a, b) == IsNum(a) /\ IsNum(b) /\ a < b

\* A boolean field that may be undefined holds one of these.
JsTrue == "true"
JsFalse == "false"
Undefined == "undefined"

TruthyNever(b) == FALSE
Truthy(b) == b = JsTrue

\* null (and a field never assigned) for a field that holds an object.
Null == [null |-> TRUE]

\* Properties every object literal inherits from Object.prototype: `k in {}`
\* is true for them and `{}[k]` is a function.
ObjectPrototypeKeys == {"toString"}

\* A property of a function object that it does not have reads undefined.
InheritedValue ==
  [start |-> UndefinedNum, end |-> UndefinedNum, duration |-> UndefinedNum,
   loop |-> Undefined, forward |-> Undefined]

\* key in obj
HasKey(obj, key) == key \in DOMAIN obj \/ key \in ObjectPrototypeKeys

\* obj[key], for a key with HasKey(obj, key)
GetKey(obj, key) == IF key \in DOMAIN obj THEN obj[key] ELSE InheritedValue

\* ------------------------------------------------------------------ inputs

Srcs == {"a.json", "b.json"}
\* Names the application registers clips under.
Names == {"walk", "run"}

\* <<start, end, seconds, opt_loop, opt_forward>> of the setAnimation calls:
\* a looping forward clip given by the defaults, and a one-shot backward one.
ClipArgs ==
  { <<0, 30, 2, Undefined, Undefined>>,
    <<5, 20, 2, JsFalse, JsFalse>> }

\* deltaTime of update, in seconds.
Deltas == {1, 2}

\* --------------------------------------------------- THREE meshes (external)

\* new THREE.MorphAnimMesh (animated) or new THREE.Mesh, built by load
\* request id from src.  A plain Mesh has no time, no duration and no
\* animation methods.
DefaultDuration == 1000

NewMesh(id, src, animated) ==
  [id |-> id, src |-> src, animated |-> animated,
   time |-> IF animated THEN 0 ELSE UndefinedNum,
   duration |-> IF animated THEN DefaultDuration ELSE UndefinedNum,
   direction |-> 1,
   startKeyframe |-> UndefinedNum, endKeyframe |-> UndefinedNum]

\* mesh.updateAnimation(delta): time += direction * delta; time %= duration;
\* if (time < 0) time += duration.  x % 0 and arithmetic on undefined are NaN.
MeshUpdateAnimation(m, delta) ==
  [m EXCEPT !.time =
     IF IsNum(m.time) /\ IsNum(m.duration) /\ m.duration > 0
     THEN (m.time + m.direction * delta) % m.duration
     ELSE NaN]

\* ------------------------------------------------------------ Model3DView_

\* What a view method hands back: the view after it and whether it threw a
\* TypeError (a property read on null, or a call of a missing method).
Returned(v) == [view |-> v, threw |-> FALSE]
Thrown(v) == [view |-> v, threw |-> TRUE]

\* A view that the engine did not create (no stencil pass).
NoView ==
  [present |-> FALSE, loaded |-> FALSE, pendingAnimation_ |-> Null,
   modelMesh_ |-> Null, material_ |-> Null, scene |-> {}, triggers |-> {},
   requests |-> {}, issued |-> 0]

\* unload: take the mesh out of the scene and the triggers, drop the material.
\* this.loaded is left as it is.
unload(v) ==
  LET a == IF v.modelMesh_ # Null
           THEN [v EXCEPT !.scene = @ \ {v.modelMesh_.id},
                          !.triggers = @ \ {v.modelMesh_.id},
                          !.modelMesh_ = Null]
           ELSE v
  IN IF a.material_ # Null THEN [a EXCEPT !.material_ = Null] ELSE a

\* loadJson_: hand the loader the source as it is now; the callback is a
\* request in flight (format_ is always 'json').
loadJson_(v, src) ==
  [v EXCEPT !.requests = @ \cup {[id |-> v.issued + 1, src |-> src]},
            !.issued = @ + 1]

loadModel_(v, src) == loadJson_(unload(v), src)

\* The loader's callback for request req.
LoadCallbackLatestOnly(v, req, animated) ==
  IF req.id = v.issued
  THEN [v EXCEPT !.modelMesh_ = NewMesh(req.id, req.src, animated),
                 !.scene = @ \cup {req.id},
                 !.triggers = @ \cup {req.id},
                 !.material_ = [of |-> req.id],
                 !.loaded = TRUE,
                 !.requests = @ \ {req}]
  ELSE [v EXCEPT !.requests = @ \ {req}]
LoadCallback(v, req, animated) ==
  [v EXCEPT !.modelMesh_ = NewMesh(req.id, req.src, animated),
            !.scene = @ \cup {req.id},
            !.triggers = @ \cup {req.id},
            !.material_ = [of |-> req.id],
            !.loaded = TRUE,
            !.requests = @ \ {req}]

\* load: the view's state after the engine created and loaded it.
load(src) ==
  loadModel_([NoView EXCEPT !.present = TRUE], src)

playAnimation_(v, animation) ==
  IF ~v.loaded
  THEN Returned([v EXCEPT !.pendingAnimation_ = animation])
  ELSE IF v.modelMesh_ = Null
  THEN Thrown(v)
  ELSE LET timed == [v EXCEPT !.modelMesh_.time = 0,
                              !.modelMesh_.duration = animation.duration]
       IN IF ~v.modelMesh_.animated
          THEN Thrown(timed)
          ELSE Returned(
                 [timed EXCEPT
                    !.modelMesh_.direction =
                       IF Truthy(animation.forward) THEN 1 ELSE -1,
                    !.modelMesh_.startKeyframe = animation.start,
                    !.modelMesh_.endKeyframe = animation.end])

updateAnimation_(v, deltaTimeMs) ==
  IF ~v.loaded
  THEN Returned(v)
  ELSE LET p == IF v.pendingAnimation_ # Null
                THEN playAnimation_(v, v.pendingAnimation_)
                ELSE Returned(v)
           w == IF v.pendingAnimation_ # Null
                THEN [p.view EXCEPT !.pendingAnimation_ = Null]
                ELSE v
       IN IF p.threw
          THEN p
          ELSE IF w.modelMesh_ = Null
          THEN Thrown(w)
          ELSE IF w.modelMesh_.animated
          THEN Returned(
                 [w EXCEPT !.modelMesh_ = MeshUpdateAnimation(@, deltaTimeMs)])
          ELSE Returned(w)

\* getLastTime_: [value, threw].
getLastTime_(v) ==
  IF ~v.loaded
  THEN [value |-> 0, threw |-> FALSE]
  ELSE IF v.modelMesh_ = Null
  THEN [value |-> UndefinedNum, threw |-> TRUE]
  ELSE [value |-> v.modelMesh_.time, threw |-> FALSE]

setToLastFrame_(v) ==
  IF v.modelMesh_ = Null
  THEN Thrown(v)
  ELSE IF v.modelMesh_.animated
  THEN Returned(
         [v EXCEPT !.modelMesh_ =
            MeshUpdateAnimation([@ EXCEPT !.time = 1], 0)])
  ELSE Returned(v)

\* ----------------------------------------------------------------- Model3D

VARIABLES
  modelSrc_,     \* this.modelSrc_
  animated_,     \* this.animated_ (options.animated)
  animations_,   \* this.animations_: own keys -> clip
  animation_,    \* this.animation_
  playing_,      \* this.playing_
  looping_,      \* this.looping_
  lastTime_,     \* this.lastTime_ (not assigned by initialize)
  view,          \* this.view
  stencilView,   \* this.stencilView (NoView when the engine has none)
  op,            \* the last call: <<method, argument>>
  err,           \* how it ended: "" or the error it threw
  trace,         \* what it dispatched and which view methods it entered, in
                 \* order
  steps          \* calls and callbacks so far

modelVars ==
  <<modelSrc_, animated_, animations_, animation_, playing_, looping_,
    lastTime_>>
viewVars == <<view, stencilView>>
vars == <<modelVars, viewVars, op, err, trace, steps>>

Dispatch(type) == <<"dispatch", type>>
Call(on, method) == <<on, method>>

\* log_.assert_(condition, ...): a failed assertion throws and the call ends
\* there, before any assignment.
Fails(kind) ==
  /\ err' = kind
  /\ trace' = <<>>
  /\ UNCHANGED <<modelVars, viewVars>>

\* initialize, then the engine creates the views and calls load on each.  The
\* model is built with the default options.animated (true): playback is
\* about animated meshes.
Init ==
  /\ modelSrc_ = "a.json"
  /\ animated_ = TRUE
  /\ animations_ = << >>
  /\ animation_ = ""
  /\ playing_ = FALSE
  /\ looping_ = JsFalse
  /\ lastTime_ = UndefinedNum
  /\ view = load("a.json")
  /\ stencilView \in {NoView, load("a.json")}
  /\ op = <<"initialize", "">>
  /\ err = ""
  /\ trace = <<>>
  /\ steps = 0

\* stop: [playing_, trace] after it.
stopAlwaysDispatches(playing) ==
  [playing_ |-> FALSE, trace |-> <<Dispatch("stop")>>]
stop(playing) ==
  [playing_ |-> FALSE,
   trace |-> IF playing THEN <<Dispatch("stop")>> ELSE <<>>]

Stop ==
  /\ op' = <<"stop", "">>
  /\ playing_' = stop(playing_).playing_
  /\ trace' = stop(playing_).trace
  /\ err' = ""
  /\ UNCHANGED <<modelSrc_, animated_, animations_, animation_, looping_,
                 lastTime_, viewVars>>

\* The clip setAnimation stores.
ClipInSeconds(start, end, seconds, opt_loop, opt_forward) ==
  [start |-> start,
   end |-> end,
   duration |-> seconds,
   loop |-> IF opt_loop # Undefined THEN opt_loop ELSE JsTrue,
   forward |-> IF opt_forward = Undefined THEN JsTrue ELSE opt_forward]
Clip(start, end, seconds, opt_loop, opt_forward) ==
  [start |-> start,
   end |-> end,
   duration |-> seconds * 1000,
   loop |-> IF opt_loop # Undefined THEN opt_loop ELSE JsTrue,
   forward |-> IF opt_forward = Undefined THEN JsTrue ELSE opt_forward]

Put(obj, key, value) ==
  [k \in DOMAIN obj \cup {key} |-> IF k = key THEN value ELSE obj[k]]

setAnimation(name, start, end, seconds, opt_loop, opt_forward) ==
  /\ op' = <<"setAnimation", name>>
  /\ IF name = "" \/ start < 0 \/ end < 0 \/ seconds < 0
     THEN Fails("InvalidArgument")
     ELSE /\ animations_' =
               Put(animations_, name,
                   Clip(start, end, seconds, opt_loop, opt_forward))
          /\ err' = ""
          /\ trace' = <<>>
          /\ UNCHANGED <<modelSrc_, animated_, animation_, playing_, looping_,
                         lastTime_, viewVars>>

\* this.animation_ === opt_name
SameAnimationNever(current, opt_name) == FALSE
SameAnimation(current, opt_name) == current = opt_name

\* if (!this.playing_) this.dispatch(new voodoo.Event('play', this))
PlayEventAlways(playing) == <<Dispatch("play")>>
PlayEvent(playing) == IF ~playing THEN <<Dispatch("play")>> ELSE <<>>

\* play(opt_name); opt_name = Undefined is play().
play(opt_name) ==
  /\ op' = <<"play", opt_name>>
  /\ IF opt_name = Undefined
     THEN IF ~HasKey(animations_, animation_)
          THEN Fails("InvalidState")
          ELSE /\ playing_' = TRUE
               /\ err' = ""
               /\ trace' = <<>>
               /\ UNCHANGED <<modelSrc_, animated_, animations_, animation_,
                              looping_, lastTime_, viewVars>>
     ELSE IF opt_name = ""
     THEN Fails("InvalidArgument")
     ELSE IF ~HasKey(animations_, opt_name)
     THEN Fails("NotFound")
     ELSE IF SameAnimation(animation_, opt_name)
     THEN /\ playing_' = TRUE
          /\ err' = ""
          /\ trace' = <<>>
          /\ UNCHANGED <<modelSrc_, animated_, animations_, animation_,
                         looping_, lastTime_, viewVars>>
     ELSE LET animation == GetKey(animations_, opt_name)
              p == playAnimation_(view, animation)
              q == IF stencilView.present
                   THEN playAnimation_(stencilView, animation)
                   ELSE Returned(stencilView)
              calls == <<Call("view", "playAnimation_")>> \o
                       IF ~p.threw /\ stencilView.present
                       THEN <<Call("stencilView", "playAnimation_")>>
                       ELSE <<>>
          IN /\ animation_' = opt_name
             /\ view' = p.view
             /\ stencilView' = IF p.threw THEN stencilView ELSE q.view
             /\ UNCHANGED <<modelSrc_, animated_, animations_>>
             /\ IF p.threw \/ q.threw
                THEN /\ err' = "TypeError"
                     /\ trace' = calls
                     /\ UNCHANGED <<playing_, looping_, lastTime_>>
                ELSE /\ err' = ""
                     /\ trace' = calls \o PlayEvent(playing_)
                     /\ playing_' = TRUE
                     /\ looping_' = animation.loop
                     /\ lastTime_' = 0

\* this.modelSrc_ === modelSrc
SameSrcNever(current, modelSrc) == FALSE
SameSrc(current, modelSrc) == current = modelSrc

\* What setModelSrc dispatches and calls once the source changed.
ReloadTraceEventFirst(playing, hasStencil) ==
  <<Dispatch("changeModelSrc")>> \o stop(playing).trace \o
  <<Call("view", "loadModel_")>> \o
  IF hasStencil THEN <<Call("stencilView", "loadModel_")>> ELSE <<>>
ReloadTrace(playing, hasStencil) ==
  stop(playing).trace \o
  <<Dispatch("changeModelSrc")>> \o
  <<Call("view", "loadModel_")>> \o
  IF hasStencil THEN <<Call("stencilView", "loadModel_")>> ELSE <<>>

setModelSrc(modelSrc) ==
  /\ op' = <<"setModelSrc", modelSrc>>
  /\ IF modelSrc = ""
     THEN Fails("InvalidArgument")
     ELSE IF SameSrc(modelSrc_, modelSrc)
     THEN /\ err' = ""
          /\ trace' = <<>>
          /\ UNCHANGED <<modelVars, viewVars>>
     ELSE /\ view.issued < MaxLoads
          /\ modelSrc_' = modelSrc
          /\ playing_' = stop(playing_).playing_
          /\ view' = loadModel_(view, modelSrc)
          /\ stencilView' = IF stencilView.present
                            THEN loadModel_(stencilView, modelSrc)
                            ELSE stencilView
          /\ trace' = ReloadTrace(playing_, stencilView.present)
          /\ err' = ""
          /\ UNCHANGED <<animated_, animations_, animation_, looping_,
                         lastTime_>>

\* update(deltaTime): what the frame leaves behind, as
\* [view, stencilView, playing_, lastTime_, trace, err].
UpdateResult(deltaTime) ==
  LET deltaTimeMs == deltaTime * 1000
      has == stencilView.present
      keep == [view |-> view, stencilView |-> stencilView,
               playing_ |-> playing_, lastTime_ |-> lastTime_,
               trace |-> <<>>, err |-> ""]
      a == updateAnimation_(view, deltaTimeMs)
      b == IF has THEN updateAnimation_(stencilView, deltaTimeMs)
           ELSE Returned(stencilView)
      t1 == <<Call("view", "updateAnimation_")>>
      t2 == t1 \o IF has THEN <<Call("stencilView", "updateAnimation_")>>
                  ELSE <<>>
      advanced == [keep EXCEPT !.view = a.view, !.stencilView = b.view]
      lastTime == getLastTime_(a.view)
      t3 == t2 \o <<Call("view", "getLastTime_")>>
      c == setToLastFrame_(a.view)
      d == IF has THEN setToLastFrame_(b.view) ELSE Returned(b.view)
      t4 == t3 \o <<Call("view", "setToLastFrame_")>>
      t5 == t4 \o IF has THEN <<Call("stencilView", "setToLastFrame_")>>
                  ELSE <<>>
  IN IF ~playing_
     THEN keep
     ELSE IF a.threw
     THEN [keep EXCEPT !.view = a.view, !.trace = t1, !.err = "TypeError"]
     ELSE IF b.threw
     THEN [advanced EXCEPT !.trace = t2, !.err = "TypeError"]
     ELSE IF Truthy(looping_)
     THEN [advanced EXCEPT !.trace = t2]
     ELSE IF lastTime.threw
     THEN [advanced EXCEPT !.trace = t3, !.err = "TypeError"]
     ELSE IF ~Less(lastTime.value, lastTime_)
     THEN [advanced EXCEPT !.trace = t3, !.lastTime_ = lastTime.value]
     ELSE IF c.threw
     THEN [advanced EXCEPT !.view = c.view, !.trace = t4,
                           !.err = "TypeError"]
     ELSE IF d.threw
     THEN [advanced EXCEPT !.view = c.view, !.stencilView = d.view,
                           !.trace = t5, !.err = "TypeError"]
     ELSE [advanced EXCEPT !.view = c.view, !.stencilView = d.view,
                           !.playing_ = stop(playing_).playing_,
                           !.trace = t5 \o stop(playing_).trace]

update(deltaTime) ==
  LET r == UpdateResult(deltaTime)
  IN /\ op' = <<"update", "">>
     /\ view' = r.view
     /\ stencilView' = r.stencilView
     /\ playing_' = r.playing_
     /\ lastTime_' = r.lastTime_
     /\ trace' = r.trace
     /\ err' = r.err
     /\ UNCHANGED <<modelSrc_, animated_, animations_, animation_, looping_>>

\* The loader calls back for a request of the view / of the stencil view.
ViewLoaded(req) ==
  /\ op' = <<"loaded", "view">>
  /\ view' = LoadCallback(view, req, animated_)
  /\ err' = ""
  /\ trace' = <<>>
  /\ UNCHANGED <<modelVars, stencilView>>

StencilViewLoaded(req) ==
  /\ op' = <<"loaded", "stencilView">>
  /\ stencilView' = LoadCallback(stencilView, req, animated_)
  /\ err' = ""
  /\ trace' = <<>>
  /\ UNCHANGED <<modelVars, view>>

\* The accessors defined by initialize.
SetPlaying(playing) == IF playing THEN play(Undefined) ELSE Stop
SetModelSrcProperty(modelSrc) == setModelSrc(modelSrc)

\* ------------------------------------------------------------ specification

\* What the application passes to play: a clip name, one that no setAnimation
\* registers, or nothing.
PlayNames == Names \cup ObjectPrototypeKeys \cup {Undefined}

Next ==
  /\ steps < MaxCalls
  /\ steps' = steps + 1
  /\
     \/ \E n \in Names, a \in ClipArgs :
          setAnimation(n, a[1], a[2], a[3], a[4], a[5])
     \/ \E n \in PlayNames : play(n)
     \/ Stop
     \/ \E s \in Srcs : setModelSrc(s)
     \/ \E d \in Deltas : update(d)
     \/ \E r \in view.requests : ViewLoaded(r)
     \/ \E r \in stencilView.requests : StencilViewLoaded(r)
     \/ \E b \in BOOLEAN : SetPlaying(b)
     \/ \E s \in Srcs : SetModelSrcProperty(s)

Spec == Init /\ [][Next]_vars

\* ----------------------------------------------------- playback to the end

\* One playback left alone: the application registers a one-shot forward
\* clip, the loader calls back for every view, the application calls
\* play(name), and from then on the engine calls update once per frame and
\* nothing else is called.  steps is the position in this run; during the
\* frames it alternates between its last two values, so that a frame is a
\* step even when it leaves every field as it was.
OneShotArgs == { <<0, 30, s, JsFalse, Undefined>> : s \in 1..MaxSeconds }

Register ==
  /\ steps = 0
  /\ steps' = 1
  /\ \E a \in OneShotArgs : setAnimation("walk", a[1], a[2], a[3], a[4], a[5])

PrimaryLoads ==
  /\ steps = 1
  /\ steps' = 2
  /\ \E r \in view.requests : ViewLoaded(r)

StencilLoads ==
  /\ steps = 2
  /\ steps' = 2
  /\ \E r \in stencilView.requests : StencilViewLoaded(r)

Start ==
  /\ steps = 2
  /\ stencilView.requests = {}
  /\ steps' = 3
  /\ play("walk")

Frame ==
  /\ steps >= 3
  /\ steps' = IF steps = 3 THEN 4 ELSE 3
  /\ \E d \in Deltas : update(d)

PlaybackNext == Register \/ PrimaryLoads \/ StencilLoads \/ Start \/ Frame

\* The engine keeps calling update.
PlaybackSpec == Init /\ [][PlaybackNext]_vars /\ WF_vars(Frame)

\* ------------------------------------------------------------------ claims

\* How often entry e occurs in sequence t.
Count(t, e) == Cardinality({i \in DOMAIN t : t[i] = e})

\* The model's fields and the views are as they were.
NothingChanged == UNCHANGED <<modelVars, viewVars>>

\* C1: setAnimation(name, ...) followed by play(name) leaves
\* currentAnimationName = name, isPlaying = true, isLooping = the loop flag of
\* the clip now stored under name, and lastSampledTimeMs = 0, from every
\* state (also when name was already current and ticks have occurred).
\* Every state in which name is registered is the state after a
\* setAnimation(name, ...) with the stored arguments.
C1_PlayRegisteredSelectsClip ==
  [][\A n \in Names :
       (n \in DOMAIN animations_ /\ op' = <<"play", n>>)
         => /\ animation_' = n
            /\ playing_' = TRUE
            /\ looping_' = animations_'[n].loop
            /\ lastTime_' = 0]_vars

\* C2: while isPlaying, isLooping is the loop flag of the clip stored under
\* currentAnimationName.
C2_LoopingMirrorsCurrentClip ==
  playing_ => looping_ = GetKey(animations_, animation_).loop

\* The time the primary view reports once update(deltaTime) has advanced it.
SampledTime(deltaTime) ==
  getLastTime_(updateAnimation_(view, deltaTime * 1000).view).value

\* The views update snaps: all that are present.
PresentViews == {"view"} \cup IF stencilView.present THEN {"stencilView"} ELSE {}

\* C3: a tick of a playing non-looping clip in which the primary view's
\* sampled time is less than lastSampledTimeMs ends with isPlaying = false,
\* one stop event and each present view snapped once; a tick while stopped
\* snaps nothing.
C3_WrapStopsAndSnapsOnce ==
  [][\A d \in Deltas :
       update(d) =>
         /\ ( /\ playing_
              /\ ~Truthy(looping_)
              /\ ~updateAnimation_(view, d * 1000).threw
              /\ Less(SampledTime(d), lastTime_) )
            => /\ playing_' = FALSE
               /\ Count(trace', Dispatch("stop")) = 1
               /\ \A v \in PresentViews :
                    Count(trace', Call(v, "setToLastFrame_")) = 1
               /\ err' = ""
         /\ ~playing_
            => \A v \in PresentViews :
                 Count(trace', Call(v, "setToLastFrame_")) = 0]_vars

\* C4: play() before any animation was selected fails with InvalidState and
\* play(name) with a name that is not registered fails with NotFound; both
\* leave every field as it was, dispatch nothing and call no view.
C4_PlayFailsWithoutEffect ==
  [][/\ (op' = <<"play", Undefined>> /\ animation_ = "")
          => (err' = "InvalidState" /\ trace' = <<>> /\ NothingChanged)
     /\ \A n \in Names \cup ObjectPrototypeKeys :
          (op' = <<"play", n>> /\ n \notin DOMAIN animations_)
            => (err' = "NotFound" /\ trace' = <<>> /\ NothingChanged)]_vars

\* C5: a call dispatches stop exactly when it takes isPlaying from true to
\* false, and then once: stop() while playing dispatches one stop event,
\* stop() while stopped none.
C5_StopEventIffPlayingEnds ==
  [][/\ Count(trace', Dispatch("stop")) =
          IF playing_ /\ ~playing_' THEN 1 ELSE 0
     /\ op' = <<"stop", "">>
          => /\ playing_' = FALSE
             /\ trace' = IF playing_ THEN <<Dispatch("stop")>> ELSE <<>>]_vars

\* A stop event was dispatched and playing ended: by stop(), by the reload of
\* setModelSrc, by the tick that detected the wrap.
C5_Witness ==
  /\ op \in {<<"stop", "">>, <<"update", "">>}
  /\ Count(trace, Dispatch("stop")) = 1
  /\ ~playing_

\* C6: play(name) with name already the current animation dispatches no play
\* event, leaves lastSampledTimeMs and isLooping as they are and forwards
\* nothing to a view: all it does is isPlaying = true, so a second play(name)
\* changes nothing.
C6_PlayCurrentOnlyResumes ==
  [][\A n \in Names \cup ObjectPrototypeKeys :
       (op' = <<"play", n>> /\ animation_ = n)
         => /\ playing_' = TRUE
            /\ err' = ""
            /\ trace' = <<>>
            /\ UNCHANGED <<modelSrc_, animated_, animations_, animation_,
                           looping_, lastTime_, viewVars>>]_vars

\* play(name) resumed the current animation after ticks had sampled a time:
\* the sampled time is still there.
C6_Witness ==
  /\ animation_ \in Names
  /\ op = <<"play", animation_>>
  /\ trace = <<>>
  /\ playing_
  /\ lastTime_ > 0

\* C7: setModelSrc(path) with a new path sets modelSource, stops playback
\* (stop is dispatched first if it was playing), then dispatches one
\* changeModelSrc, then has every present view reload, in that order; each
\* reload drops the view's mesh and asks the loader for the new path.
Reloaded(v, w, path) ==
  /\ w.modelMesh_ = Null
  /\ w.material_ = Null
  /\ w.issued = v.issued + 1
  /\ w.requests = v.requests \cup {[id |-> v.issued + 1, src |-> path]}

C7_NewSrcStopsThenReloads ==
  [][\A path \in Srcs :
       (op' = <<"setModelSrc", path>> /\ path # modelSrc_)
         => /\ modelSrc_' = path
            /\ playing_' = FALSE
            /\ err' = ""
            /\ trace' =
                 (IF playing_ THEN <<Dispatch("stop")>> ELSE <<>>) \o
                 <<Dispatch("changeModelSrc"), Call("view", "loadModel_")>> \o
                 (IF stencilView.present
                  THEN <<Call("stencilView", "loadModel_")>> ELSE <<>>)
            /\ Reloaded(view, view', path)
            /\ stencilView.present
                 => Reloaded(stencilView, stencilView', path)
            /\ ~stencilView.present => stencilView' = stencilView]_vars

\* setModelSrc changed the source while playing, with a stencil view.
C7_Witness ==
  /\ op = <<"setModelSrc", modelSrc_>>
  /\ trace = <<Dispatch("stop"), Dispatch("changeModelSrc"),
               Call("view", "loadModel_"), Call("stencilView", "loadModel_")>>
  /\ ~playing_

\* C8: setModelSrc(path) with the current path changes no field, dispatches
\* nothing and has no view unload or reload.
C8_SameSrcIsNoOp ==
  [][(op' = <<"setModelSrc", modelSrc_>>)
       => (NothingChanged /\ trace' = <<>> /\ err' = "")]_vars

\* setModelSrc was called with the current source while playing, mesh loaded.
C8_Witness ==
  /\ op = <<"setModelSrc", modelSrc_>>
  /\ trace = <<>>
  /\ playing_
  /\ view.modelMesh_ # Null

\* C9: currentAnimationName is the empty string or a key registered in
\* animations.
C9_CurrentAnimationRegistered ==
  animation_ = "" \/ animation_ \in DOMAIN animations_

\* C10: a valid setAnimation(name, start, end, seconds, loop, forward) stores
\* {start, end, durationMs = seconds * 1000, loop (default true), forward
\* (default true)} under name and changes nothing else, also when name is
\* the animation that is playing.
C10_SetAnimationStoresClipOnly ==
  [][\A n \in Names, a \in ClipArgs :
       setAnimation(n, a[1], a[2], a[3], a[4], a[5])
         => /\ DOMAIN animations_' = DOMAIN animations_ \cup {n}
            /\ animations_'[n] =
                 [start |-> a[1], end |-> a[2], duration |-> a[3] * 1000,
                  loop |-> IF a[4] = Undefined THEN JsTrue ELSE a[4],
                  forward |-> IF a[5] = Undefined THEN JsTrue ELSE a[5]]
            /\ \A k \in DOMAIN animations_ \ {n} :
                 animations_'[k] = animations_[k]
            /\ UNCHANGED <<modelSrc_, animated_, animation_, playing_,
                           looping_, lastTime_, viewVars>>
            /\ trace' = <<>>
            /\ err' = ""]_vars

\* setAnimation replaced the clip of the animation that is playing by one
\* with another loop flag, after the views had been given the old one.
C10_Witness ==
  /\ op = <<"setAnimation", animation_>>
  /\ playing_
  /\ animation_ \in DOMAIN animations_
  /\ animations_[animation_].loop # looping_
  /\ animations_[animation_].duration = 2000
  /\ view.modelMesh_ # Null

\* The views the engine created.
Views == {view} \cup IF stencilView.present THEN {stencilView} ELSE {}

\* C11: a view whose loaded flag is set has a mesh, so that between the
\* reload of setModelSrc and the loader's callback a tick leaves the view
\* alone and play(name) only queues the clip.
C11_LoadedHasMesh ==
  \A v \in Views : v.loaded => v.modelMesh_ # Null

\* The mesh of view v plays clip: its duration, direction and frame range.
Configured(v, clip) ==
  /\ v.modelMesh_ # Null
  /\ v.modelMesh_.duration = clip.duration
  /\ v.modelMesh_.direction = (IF Truthy(clip.forward) THEN 1 ELSE -1)
  /\ v.modelMesh_.startKeyframe = clip.start
  /\ v.modelMesh_.endKeyframe = clip.end

\* C12: a tick that advances the loaded primary view right after play(name)
\* forwarded a registered clip to it leaves the mesh configured with that
\* clip, whatever clip had been queued before the load completed.
C12_TickKeepsForwardedClip ==
  [][\A n \in Names, d \in Deltas :
       ( /\ op = <<"play", n>>
         /\ err = ""
         /\ trace # <<>>
         /\ view.pendingAnimation_ # InheritedValue
         /\ view.loaded
         /\ view.modelMesh_ # Null
         /\ update(d) )
       => Configured(view', animations_[n])]_vars

\* C13: play(name) of a new clip on a view whose loaded flag is not set only
\* queues the clip; a tick while playing on a view that is loaded and has a
\* registered clip queued applies it (configures the mesh with it) and
\* empties the queue; a tick while stopped leaves the queue and the mesh alone.
C13_PendingAppliedAtFirstTick ==
  [][/\ \A n \in Names :
          (op' = <<"play", n>> /\ n \in DOMAIN animations_ /\ animation_ # n
             /\ ~view.loaded)
          => view' = [view EXCEPT !.pendingAnimation_ = animations_[n]]
     /\ \A d \in Deltas :
          update(d) =>
            /\ ( /\ playing_
                 /\ view.loaded
                 /\ view.pendingAnimation_ # Null
                 /\ view.pendingAnimation_ # InheritedValue )
                 => /\ view'.pendingAnimation_ = Null
                    /\ Configured(view', view.pendingAnimation_)
            /\ ~playing_ => view' = view]_vars

\* C14: what a view has in the scene, and in the triggers, is nothing or its
\* current mesh.
Shown(v) == IF v.modelMesh_ = Null THEN {} ELSE {v.modelMesh_.id}

C14_SceneHoldsCurrentMeshOnly ==
  \A v \in Views :
    /\ v.scene \in {{}, Shown(v)}
    /\ v.triggers \in {{}, Shown(v)}

\* C15: no load is cancelled: setModelSrc leaves the requests in flight where
\* they are, and every callback that fires makes its mesh the view's mesh and
\* sets loaded, whatever the view asked for since.
C15_EveryCallbackOverwrites ==
  [][/\ view.requests \ view'.requests # {}
          => \E r \in view.requests :
               /\ view'.requests = view.requests \ {r}
               /\ op' = <<"loaded", "view">>
               /\ view'.modelMesh_ # Null
               /\ view'.modelMesh_.id = r.id
               /\ view'.modelMesh_.src = r.src
               /\ view'.loaded
     /\ stencilView.requests \ stencilView'.requests # {}
          => \E r \in stencilView.requests :
               /\ stencilView'.requests = stencilView.requests \ {r}
               /\ op' = <<"loaded", "stencilView">>
               /\ stencilView'.modelMesh_ # Null
               /\ stencilView'.modelMesh_.id = r.id
               /\ stencilView'.modelMesh_.src = r.src
               /\ stencilView'.loaded]_vars

\* The callbacks fired out of request order: the view holds the mesh of a
\* source that is not modelSrc_, and nothing is in flight.
C15_Witness ==
  /\ op = <<"loaded", "view">>
  /\ view.requests = {}
  /\ view.issued = 2
  /\ view.modelMesh_ # Null
  /\ view.modelMesh_.id = 1
  /\ view.modelMesh_.src # modelSrc_

\* C17: update calls setToLastFrame_ only on a view that has a mesh, so the
\* tick that detects the end of a one-shot clip does not throw and reaches
\* stop().
C17_SnapOnlyWithMesh ==
  [][\A d \in Deltas :
       update(d) =>
         /\ Count(trace', Call("view", "setToLastFrame_")) > 0
              => view'.modelMesh_ # Null
         /\ Count(trace', Call("stencilView", "setToLastFrame_")) > 0
              => stencilView'.modelMesh_ # Null
         /\ Count(trace', Call("view", "setToLastFrame_")) > 0
              => (err' = "" /\ ~playing_')]_vars

\* C18: a play event is dispatched only by play, only once, and only in a
\* step that takes isPlaying from false to true; play(name) while playing
\* dispatches none.
C18_PlayEventOnlyOnStart ==
  [][/\ Count(trace', Dispatch("play")) > 0
          => /\ Count(trace', Dispatch("play")) = 1
             /\ op'[1] = "play"
             /\ ~playing_
             /\ playing_'
     /\ \A n \in Names \cup ObjectPrototypeKeys :
          (op' = <<"play", n>> /\ playing_)
            => Count(trace', Dispatch("play")) = 0]_vars

\* play(name) selected another clip while playing: the clip went to the view
\* and no play event was dispatched.
C18_Witness ==
  /\ op = <<"play", animation_>>
  /\ animation_ \in Names
  /\ err = ""
  /\ playing_
  /\ trace = <<Call("view", "playAnimation_")>>

\* C19: a tick while isPlaying is false changes nothing, calls no view and
\* dispatches nothing; a tick while isLooping is true leaves isPlaying as it
\* is, dispatches no stop and snaps no view.
C19_TickIdleOrLooping ==
  [][\A d \in Deltas :
       update(d) =>
         /\ ~playing_
              => (NothingChanged /\ trace' = <<>> /\ err' = "")
         /\ looping_ = JsTrue
              => /\ playing_' = playing_
                 /\ Count(trace', Dispatch("stop")) = 0
                 /\ Count(trace', Call("view", "setToLastFrame_")) = 0
                 /\ Count(trace', Call("stencilView", "setToLastFrame_")) = 0]_vars

\* A tick advanced a looping clip to its end (the time wrapped to 0) and
\* playback goes on.
C19_Witness ==
  /\ op = <<"update", "">>
  /\ err = ""
  /\ playing_
  /\ looping_ = JsTrue
  /\ view.modelMesh_ # Null
  /\ view.modelMesh_.duration = 2000
  /\ view.modelMesh_.time = 0
  /\ view.pendingAnimation_ = Null

\* C20: while isPlaying, currentAnimationName is non-empty and registered
\* and lastSampledTimeMs is a number that a play(name) set.
C20_PlayingHasSelectedClip ==
  playing_ =>
    /\ animation_ # ""
    /\ animation_ \in DOMAIN animations_
    /\ IsNum(lastTime_)

\* C16: a one-shot clip of positive duration that plays on a loaded primary
\* view, with frames that keep coming and no other call, is eventually
\* stopped: isPlaying becomes false.
C16_OneShotEventuallyStops ==
  [](( /\ playing_
       /\ looping_ = JsFalse
       /\ view.loaded
       /\ view.modelMesh_ # Null
       /\ view.modelMesh_.duration > 0 )
     => <>(~playing_))

====
